---- MODULE Spec2Model ----
(***************************************************************************)
(* Host exports of the WASM runtime (runtime/wasm/src/host_exports.rs):    *)
(* the store operations, ethereum_call, data_source_create and ipfs_map,   *)
(* acting on one block's BlockState, proof-of-indexing log and gas counter.*)
(***************************************************************************)
EXTENDS Integers, Sequences, FiniteSets, TLC

\* ------------------------------------------------------------------ bounds
\* Host calls made by the mapping in one block.
MaxCalls == 3
\* Largest gas amount a single host call declares.
MaxGasCost == 2
\* The gas budget of the handler.
GasBudget == 3

\* ------------------------------------------------------------------ values
Str(s) == [tag |-> "String", v |-> s]
\* A field the map does not hold (HashMap::get / insert returning None).
Absent == [tag |-> "Absent", v |-> ""]

EntityTypes == {"Token"}
EntityIds == {"a", "b"}
\* EntityKey { subgraph_id, entity_type, entity_id }; one subgraph.
EntityKey(entity_type, entity_id) == [entity_type |-> entity_type, entity_id |-> entity_id]
Keys == {EntityKey(t, i) : t \in EntityTypes, i \in EntityIds}

FieldNames == {"id", "owner"}
\* The `id` values a mapping may pass in the field map: none, or a string.
IdValues == {Absent} \cup {Str(i) : i \in EntityIds}
OwnerValues == {Absent, Str("x")}
\* HashMap<String, Value>: a total map with Absent for the missing fields.
FieldMaps == {[id |-> i, owner |-> o] : i \in IdValues, o \in OwnerValues}

\* Option<T> as a sequence of length at most one.
None == << >>
Some(x) == << x >>

\* The entity the store holds for a key that was committed by an earlier block:
\* it passed validation and carries the key's id.
StoredEntity(key) == [id |-> Str(key.entity_id), owner |-> Str("x")]

\* ------------------------------------------------------------------ state
VARIABLES
    store,                 \* the underlying store: key -> Option<Entity>
    entity_cache,          \* BlockState.entity_cache: key -> pending EntityOp
    created_data_sources,  \* BlockState.created_data_sources
    proof_of_indexing,     \* SharedProofOfIndexing: Option of the event log
    gas,                   \* GasCounter
    trapped,               \* a host call returned Err: the handler is aborted
    ncalls,                \* host calls made in this block
    lastOp,                \* the last host call: its name
    lastArgs,              \* its arguments
    lastRes,               \* its result
    pre,                   \* the block state right before it
    adapter_calls,         \* what contract_call returned to the last ethereum_call
    ipfs,                  \* the running ipfs_map call
    calls,                 \* history: the calls on the block state that returned, in order
    logged,                \* the records the last host call emitted on its `logger`
    cache_reads            \* the entity_cache.get calls the last host call made

vars == << store, entity_cache, created_data_sources, proof_of_indexing, gas, trapped,
           ncalls, lastOp, lastArgs, lastRes, pre, adapter_calls, ipfs, calls,
           logged, cache_reads >>

\* ------------------------------------------------------------ collaborators
\* GasCounter::consume_host_fn: add the declared amount; Err when the sum
\* exceeds the budget.
consume_host_fn(g, amount) ==
    [ok |-> g + amount <= GasBudget, gas |-> g + amount]

\* The amounts a host call may declare (its cost formula over the arguments).
GasCosts == 1..MaxGasCost

EmptyMap == [f \in FieldNames |-> Absent]
NoOp == [kind |-> "NoOp", data |-> EmptyMap]
RemoveOp == [kind |-> "Remove", data |-> EmptyMap]
UpdateOp(entity) == [kind |-> "Update", data |-> entity]
OverwriteOp(entity) == [kind |-> "Overwrite", data |-> entity]

\* Entity::merge: the fields of `update` laid over those of `current`.
Merge(current, update) ==
    [f \in FieldNames |-> IF update[f] # Absent THEN update[f] ELSE current[f]]

\* EntityCache::set: the write is accumulated onto the pending op of the key.
EntityCacheSet(cache, key, entity) ==
    LET cur == cache[key]
        next == CASE cur.kind = "NoOp" -> UpdateOp(entity)
                  [] cur.kind = "Remove" -> OverwriteOp(entity)
                  [] cur.kind = "Update" -> UpdateOp(Merge(cur.data, entity))
                  [] cur.kind = "Overwrite" -> OverwriteOp(Merge(cur.data, entity))
    IN  [cache EXCEPT ![key] = next]

\* EntityCache::remove: the key is tombstoned against the store.
EntityCacheRemove(cache, key) == [cache EXCEPT ![key] = RemoveOp]

\* EntityCache::get: the pending op of the key applied to what the store holds.
EntityCacheGet(cache, st, key) ==
    LET op == cache[key]
        base == st[key]
    IN  CASE op.kind = "NoOp" -> base
          [] op.kind = "Remove" -> None
          [] op.kind = "Overwrite" -> Some(op.data)
          [] op.kind = "Update" ->
                Some(Merge(IF base = None THEN EmptyMap ELSE base[1], op.data))

\* validate_entity against the input schema: type Token { id: ID!, owner: String! }.
validate_entity(key, entity) ==
    /\ entity["id"].tag = "String"
    /\ entity["owner"].tag = "String"

\* HostExports::new: causality_region = format!("ethereum/{}", data_source_network).
data_source_network == "mainnet"
causality_region == << "ethereum", data_source_network >>

\* ProofOfIndexing::write: the event is appended to the log of its region.
ProofOfIndexingWrite(poi, region, event) ==
    IF poi = None THEN None
    ELSE Some(Append(poi[1], [region |-> region, event |-> event]))

SetEntity(entity_type, id, data) ==
    [kind |-> "SetEntity", entity_type |-> entity_type, id |-> id, data |-> data]
RemoveEntity(entity_type, id) ==
    [kind |-> "RemoveEntity", entity_type |-> entity_type, id |-> id, data |-> EmptyMap]

\* slog::Record: a level and the message; the records carry the data source's name.
LogRecord(level, msg) == [level |-> level, msg |-> msg]

\* ------------------------------------------------------------------ errors
\* impl From<anyhow::Error> for HostExportError
HostExportErrorFromAnyhow == "Unknown"
\* impl From<DeterministicHostError> for HostExportError
HostExportErrorFromDeterministic == "Deterministic"

\* Result<T, E>: `val` is the Ok value, `err` the failure, `class` its determinism
\* class, `ctx` the context an error message was prefixed with.
Ok == [ok |-> TRUE, err |-> "", class |-> "", val |-> None, ctx |-> None]
OkVal(v) == [ok |-> TRUE, err |-> "", class |-> "", val |-> v, ctx |-> None]
Err(cause, class) == [ok |-> FALSE, err |-> cause, class |-> class, val |-> None, ctx |-> None]

NoKey == EntityKey("", "")
NoArgs == [key |-> NoKey, data |-> EmptyMap, name |-> ""]
StoreArgs(key, data) == [key |-> key, data |-> data, name |-> ""]

BlockState == [entity_cache |-> entity_cache,
               created_data_sources |-> created_data_sources,
               proof_of_indexing |-> proof_of_indexing,
               gas |-> gas]

\* ctx.derive_with_empty_block_state(): the state a spawned instance starts from.
NoCache == [k \in Keys |-> NoOp]
EmptyBlockState == [entity_cache |-> NoCache,
                    created_data_sources |-> << >>]

\* No ipfs_map call is running.
IpfsIdle == [pc |-> "idle", link |-> "", callback |-> "", flags |-> << >>,
             resolver_calls |-> 0,
             read |-> << >>, cur |-> "", spawned |-> 0, instance |-> EmptyBlockState,
             callbacks |-> 0, v |-> << >>]

\* The bookkeeping of a host call that ran to its return.
Returned(op, args, res) ==
    /\ lastOp' = op
    /\ lastArgs' = args
    /\ lastRes' = res
    /\ pre' = BlockState
    /\ ncalls' = ncalls + 1
    /\ trapped' = ~res.ok
    /\ ipfs' = IpfsIdle
    /\ calls' = Append(calls, [op |-> op, args |-> args, res |-> res])

\* The bookkeeping of a host call that is handed no block state: it returns
\* like the others and stays out of the history of the calls on the block state.
Computed(op, args, res) ==
    /\ lastOp' = op
    /\ lastArgs' = args
    /\ lastRes' = res
    /\ pre' = BlockState
    /\ ncalls' = ncalls + 1
    /\ trapped' = ~res.ok
    /\ ipfs' = IpfsIdle
    /\ adapter_calls' = << >>
    /\ cache_reads' = 0
    /\ UNCHANGED << store, entity_cache, created_data_sources, proof_of_indexing, calls >>

\* The mapping may make a host call: it is running and no other call is active.
CanCall == ~trapped /\ ncalls < MaxCalls /\ ipfs.pc = "idle"

\* ------------------------------------------------------------------ store_set
\* proof_of_indexing.write(.., &self.causality_region, &SetEntity { entity_type, id, data })
StoreSetPoi(poi, entity_type, entity_id, data) ==
    ProofOfIndexingWrite(poi, causality_region, SetEntity(entity_type, entity_id, data))

\* data.insert("id", Value::String(entity_id)): the map after the insert.
InsertId(data, entity_id) == [data EXCEPT !["id"] = Str(entity_id)]

\* Some(ref v) if v != &Value::String(entity_id): the insert displaced another value.
IdConflicts(data, entity_id) ==
    data["id"] # Absent /\ data["id"] # Str(entity_id)

\* state.entity_cache.set(key.clone(), entity)
StoreSetCache(cache, key, entity) == EntityCacheSet(cache, key, entity)

\* The fallback run on every write, valid or not.
NeedsPostValidationAlways(is_valid) == TRUE

\* if !is_valid { .. }: only a write that is not valid by itself is re-read.
NeedsPostValidation(is_valid) == ~is_valid

\* What the store does when store_set reaches it.
StoreOutcomes == {"ok", "schema_fails", "get_fails"}

store_set(entity_type, entity_id, data, cost, store_outcome) ==
    LET poi1 == StoreSetPoi(proof_of_indexing, entity_type, entity_id, data)
        conflict == IdConflicts(data, entity_id)
        data1 == InsertId(data, entity_id)
        key == EntityKey(entity_type, entity_id)
        charged == consume_host_fn(gas, cost)
        is_valid == validate_entity(key, data1)
        cache1 == StoreSetCache(entity_cache, key, data1)
        merged == EntityCacheGet(cache1, store, key)
        args == StoreArgs(key, data)
    IN  /\ CanCall
        /\ proof_of_indexing' = poi1
        /\ adapter_calls' = << >>
        /\ logged' = << >>
        /\ cache_reads' = IF conflict \/ ~charged.ok \/ store_outcome = "schema_fails"
                                \/ ~NeedsPostValidation(is_valid)
                          THEN 0 ELSE 1
        /\ UNCHANGED << store, created_data_sources >>
        /\ IF conflict
           THEN /\ UNCHANGED << entity_cache, gas >>
                /\ Returned("store_set", args, Err("IdConflict", HostExportErrorFromAnyhow))
           ELSE /\ gas' = charged.gas
                /\ IF ~charged.ok
                   THEN /\ UNCHANGED entity_cache
                        /\ Returned("store_set", args, Err("OutOfGas", HostExportErrorFromAnyhow))
                   ELSE IF store_outcome = "schema_fails"
                   \* self.store.input_schema(..)? fails before the cache is written.
                   THEN /\ UNCHANGED entity_cache
                        /\ Returned("store_set", args, Err("Store", HostExportErrorFromAnyhow))
                   ELSE /\ entity_cache' = cache1
                        /\ IF ~NeedsPostValidation(is_valid)
                           THEN Returned("store_set", args, Ok)
                           ELSE IF store_outcome = "get_fails"
                           \* state.entity_cache.get(&key) fails in the post validation.
                           THEN Returned("store_set", args,
                                         Err("Store", HostExportErrorFromAnyhow))
                           ELSE IF merged = None
                           \* .expect("we just stored this entity") panics.
                           THEN Returned("store_set", args, Err("Panic", "Panic"))
                           ELSE IF validate_entity(key, merged[1])
                           THEN Returned("store_set", args, Ok)
                           ELSE Returned("store_set", args,
                                         Err("Validation", HostExportErrorFromAnyhow))

\* --------------------------------------------------------------- store_remove
\* The write to the log left out of store_remove.
StoreRemovePoiSkipped(poi, entity_type, entity_id) == poi

\* proof_of_indexing.write(.., &self.causality_region, &RemoveEntity { entity_type, id })
StoreRemovePoi(poi, entity_type, entity_id) ==
    ProofOfIndexingWrite(poi, causality_region, RemoveEntity(entity_type, entity_id))

\* The removal left out: the cache keeps its entry.
StoreRemoveCacheSkipped(cache, key) == cache

\* state.entity_cache.remove(key)
StoreRemoveCache(cache, key) == EntityCacheRemove(cache, key)

store_remove(entity_type, entity_id, cost) ==
    LET key == EntityKey(entity_type, entity_id)
        charged == consume_host_fn(gas, cost)
        args == StoreArgs(key, EmptyMap)
    IN  /\ CanCall
        /\ proof_of_indexing' = StoreRemovePoi(proof_of_indexing, entity_type, entity_id)
        /\ gas' = charged.gas
        /\ adapter_calls' = << >>
        /\ logged' = << >>
        /\ cache_reads' = 0
        /\ UNCHANGED << store, created_data_sources >>
        /\ IF ~charged.ok
           THEN /\ UNCHANGED entity_cache
                /\ Returned("store_remove", args,
                            Err("OutOfGas", HostExportErrorFromDeterministic))
           ELSE /\ entity_cache' = StoreRemoveCache(entity_cache, key)
                /\ Returned("store_remove", args, Ok)

\* ------------------------------------------------------------------ store_get
\* The read going to the store, past the cache.
StoreGetResultFromStore(cache, st, key) == st[key]

\* Ok(state.entity_cache.get(&store_key)?)
StoreGetResult(cache, st, key) == EntityCacheGet(cache, st, key)

store_get(entity_type, entity_id, cost, store_ok) ==
    LET key == EntityKey(entity_type, entity_id)
        charged == consume_host_fn(gas, cost)
        args == StoreArgs(key, EmptyMap)
    IN  /\ CanCall
        /\ adapter_calls' = << >>
        /\ logged' = << >>
        /\ cache_reads' = IF ~store_ok \/ ~charged.ok THEN 1 ELSE 2
        /\ UNCHANGED << store, entity_cache, created_data_sources, proof_of_indexing >>
        /\ IF ~store_ok
           \* state.entity_cache.get(&store_key)? fails before gas is charged.
           THEN /\ UNCHANGED gas
                /\ Returned("store_get", args, Err("Store", HostExportErrorFromAnyhow))
           ELSE /\ gas' = charged.gas
                /\ IF ~charged.ok
                   THEN Returned("store_get", args, Err("OutOfGas", HostExportErrorFromAnyhow))
                   ELSE Returned("store_get", args,
                                 OkVal(StoreGetResult(entity_cache, store, key)))

\* -------------------------------------------------------------- ethereum_call
\* impl From<anyhow::Error> for EthereumCallError
EthereumCallErrorFromAnyhow == "Unknown"
\* impl From<DeterministicHostError> for EthereumCallError
EthereumCallErrorFromDeterministic == "Deterministic"

\* self.abis: the contract ABIs attached to the data source, each with its
\* functions by name (overloads in declaration order, by signature).
abis == << [name |-> "ERC20",
            functions |-> [transfer |-> << "transfer(address,uint256)",
                                           "transfer(address,uint256,bytes)" >>,
                           symbol |-> << "symbol()" >>]] >>

ContractNames == {"ERC20", "Unlisted"}
FunctionNames == {"transfer", "mint"}
FunctionSignatures == {"transfer(address,uint256)", "transfer(address,uint256,bytes)",
                       "mint(address)"}

\* self.abis.iter().find(|abi| abi.name == contract_name)
FindAbi(contract_name) ==
    LET hits == {i \in 1..Len(abis) : abis[i].name = contract_name}
    IN  IF hits = {} THEN None
        ELSE Some(abis[CHOOSE i \in hits : \A j \in hits : i <= j])

\* contract.functions_by_name(name): the overloads, or an error for an unknown name.
FunctionsByName(contract, function_name) ==
    IF function_name \in DOMAIN contract.functions
    THEN Some(contract.functions[function_name])
    ELSE None

\* The `function` match: by name (first overload) when no signature is given,
\* by exact signature among the overloads when one is.
ResolveFunction(contract, function_name, function_signature) ==
    LET overloads == FunctionsByName(contract, function_name)
    IN  IF overloads = None THEN None
        ELSE IF function_signature = None THEN Some(overloads[1][1])
        ELSE LET hits == {i \in 1..Len(overloads[1]) :
                              overloads[1][i] = function_signature[1]}
             IN  IF hits = {} THEN None
                 ELSE Some(overloads[1][CHOOSE i \in hits : \A j \in hits : i <= j])

\* What EthereumAdapter::contract_call returns: Ok(tokens) or an
\* EthereumContractCallError.
AdapterOutcomes == {"Ok", "Revert", "Web3Error", "Timeout", "ABIError", "TypeError",
                    "EncodingError"}

\* The match without its Timeout arm: a timeout falls to the catch-all.
ClassifyContractCallNoTimeoutArm(outcome, function) ==
    CASE outcome = "Ok" -> OkVal(Some(function))
      [] outcome = "Revert" -> OkVal(None)
      [] outcome = "Web3Error" -> Err("Web3Error", "PossibleReorg")
      [] OTHER -> Err(outcome, "Unknown")

\* The match on the adapter's result.
ClassifyContractCall(outcome, function) ==
    CASE outcome = "Ok" -> OkVal(Some(function))
      [] outcome = "Revert" -> OkVal(None)
      [] outcome = "Web3Error" -> Err("Web3Error", "PossibleReorg")
      [] outcome = "Timeout" -> Err("Timeout", "PossibleReorg")
      [] OTHER -> Err(outcome, "Unknown")

ethereum_call(contract_name, function_name, function_signature, outcome, cost) ==
    LET charged == consume_host_fn(gas, cost)
        contract == FindAbi(contract_name)
        function == ResolveFunction(contract[1], function_name, function_signature)
        args == [key |-> NoKey, data |-> EmptyMap,
                 name |-> << contract_name, function_name, function_signature >>]
    IN  /\ CanCall
        /\ gas' = charged.gas
        /\ cache_reads' = 0
        \* info!("Contract call reverted") in the Revert arm, trace!("Contract call
        \* finished") after the match.
        /\ logged' = IF ~charged.ok \/ contract = None \/ function = None THEN << >>
                     ELSE IF outcome = "Revert"
                     THEN << LogRecord("Info", "Contract call reverted"),
                             LogRecord("Trace", "Contract call finished") >>
                     ELSE << LogRecord("Trace", "Contract call finished") >>
        /\ UNCHANGED << store, entity_cache, created_data_sources, proof_of_indexing >>
        /\ IF ~charged.ok
           THEN /\ adapter_calls' = << >>
                /\ Returned("ethereum_call", args,
                            Err("OutOfGas", EthereumCallErrorFromDeterministic))
           ELSE IF contract = None
           THEN /\ adapter_calls' = << >>
                /\ Returned("ethereum_call", args,
                            Err("NoAbi", EthereumCallErrorFromAnyhow))
           ELSE IF function = None
           THEN /\ adapter_calls' = << >>
                /\ Returned("ethereum_call", args,
                            Err("UnknownFunction", EthereumCallErrorFromAnyhow))
           ELSE /\ adapter_calls' = << outcome >>
                /\ Returned("ethereum_call", args, ClassifyContractCall(outcome, function[1]))

\* --------------------------------------------------------- data_source_create
\* self.templates
templates == << [name |-> "Pair", kind |-> "ethereum/contract"],
                [name |-> "Vault", kind |-> "ethereum/contract"] >>

TemplateNames == {"Pair", "Vault", "Oracle"}
ParamLists == {<< "0xab" >>}
Contexts == {Some("ctx")}
BlockNumbers == {7}

\* self.templates.iter().find(|template| template.name == name)
FindTemplate(name) ==
    LET hits == {i \in 1..Len(templates) : templates[i].name = name}
    IN  IF hits = {} THEN None
        ELSE Some(templates[CHOOSE i \in hits : \A j \in hits : i <= j])

DataSourceTemplateInfo(template, params, context, creation_block) ==
    [template |-> template, params |-> params, context |-> context,
     creation_block |-> creation_block]

\* The request put at the front of the list.
PushCreatedDataSourceFront(created, info) == << info >> \o created

\* state.push_created_data_source(DataSourceTemplateInfo { .. })
PushCreatedDataSource(created, info) == Append(created, info)

data_source_create(name, params, context, creation_block, cost) ==
    LET charged == consume_host_fn(gas, cost)
        template == FindTemplate(name)
        args == [key |-> NoKey, data |-> EmptyMap,
                 name |-> << name, params, context, creation_block >>]
    IN  /\ CanCall
        /\ gas' = charged.gas
        /\ adapter_calls' = << >>
        /\ cache_reads' = 0
        \* info!(logger, "Create data source"; ..) once the gas is paid.
        /\ logged' = IF charged.ok THEN << LogRecord("Info", "Create data source") >>
                     ELSE << >>
        /\ UNCHANGED << store, entity_cache, proof_of_indexing >>
        /\ IF ~charged.ok
           THEN /\ UNCHANGED created_data_sources
                /\ Returned("data_source_create", args,
                            Err("OutOfGas", HostExportErrorFromDeterministic))
           ELSE IF template = None
           THEN /\ UNCHANGED created_data_sources
                /\ Returned("data_source_create", args,
                            Err("NoTemplate", HostExportErrorFromDeterministic))
           ELSE /\ created_data_sources' =
                       PushCreatedDataSource(created_data_sources,
                           DataSourceTemplateInfo(template[1], params, context, creation_block))
                /\ Returned("data_source_create", args, Ok)

\* ------------------------------------------------------------------- ipfs_map
\* Records the content resolver may stream for one link.
MaxRecords == 2

Links == {"QmFile"}
Callbacks == {"processItem"}
FlagLists == {<< "json" >>, << >>, << "raw" >>}
JsonValues == EntityIds
JSON_FLAG == "json"

\* flags.contains(&JSON_FLAG.to_string())
FlagsContainJson(flags) == \E i \in 1..Len(flags) : flags[i] = JSON_FLAG

\* WasmInstance::handle_json_callback: the callback's block state; the mapping
\* stores the entity named by the JSON value.
handle_json_callback(state, value) ==
    [state EXCEPT !.entity_cache =
        EntityCacheSet(state.entity_cache, EntityKey("Token", value),
                       [id |-> Str(value), owner |-> Str("x")])]

\* errmsg = format!("ipfs_map: callback '{}' failed when processing file '{}'", ..)
IpfsErrmsg(callback, link) == [callback |-> callback, link |-> link]

\* The `?` operator inside the block computing `result`: the block is no
\* closure, so the error is the return value of ipfs_map itself.
IpfsQuestionMark(e) == e

\* result.map_err(move |e| anyhow!("{}: {}", errmsg, e.to_string()))
IpfsMapErr(result, errmsg) ==
    IF result.ok THEN result ELSE [result EXCEPT !.ctx = Some(errmsg)]

\* The result put at the front of the vector.
IpfsPushFront(v, result) == << result >> \o v

\* v.push(result)
IpfsPush(v, result) == Append(v, result)

IpfsArgs == [key |-> NoKey, data |-> EmptyMap,
             name |-> << ipfs.link, ipfs.callback, ipfs.flags >>]

\* The return of ipfs_map to the calling instance.
IpfsReturn(res, next) ==
    /\ lastOp' = "ipfs_map"
    /\ lastArgs' = IpfsArgs
    /\ lastRes' = res
    /\ ncalls' = ncalls + 1
    /\ trapped' = ~res.ok
    /\ ipfs' = [next EXCEPT !.pc = "idle"]
    /\ calls' = Append(calls, [op |-> "ipfs_map", args |-> IpfsArgs, res |-> res])
    /\ UNCHANGED << store, entity_cache, created_data_sources, proof_of_indexing, gas,
                    pre, adapter_calls, logged, cache_reads >>

IpfsStep(next) ==
    /\ ipfs' = next
    /\ UNCHANGED << store, entity_cache, created_data_sources, proof_of_indexing, gas,
                    trapped, ncalls, lastOp, lastArgs, lastRes, pre, adapter_calls, calls,
                    logged, cache_reads >>

\* The call and its ensure!(flags.contains("json")).
ipfs_map(link, callback, flags) ==
    LET entered == [IpfsIdle EXCEPT !.link = link, !.callback = callback, !.flags = flags]
        args == [key |-> NoKey, data |-> EmptyMap, name |-> << link, callback, flags >>]
        res == Err("FlagsMustContainJson", HostExportErrorFromAnyhow)
    IN  /\ CanCall
        /\ pre' = BlockState
        /\ adapter_calls' = << >>
        \* ipfs_map is handed no logger: it logs its progress on a child of ctx.logger.
        /\ logged' = << >>
        /\ cache_reads' = 0
        /\ UNCHANGED << store, entity_cache, created_data_sources, proof_of_indexing, gas >>
        /\ IF ~FlagsContainJson(flags)
           THEN /\ lastOp' = "ipfs_map"
                /\ lastArgs' = args
                /\ lastRes' = res
                /\ ncalls' = ncalls + 1
                /\ trapped' = TRUE
                /\ ipfs' = entered
                /\ calls' = Append(calls, [op |-> "ipfs_map", args |-> args, res |-> res])
           ELSE /\ ipfs' = [entered EXCEPT !.pc = "open"]
                /\ UNCHANGED << lastOp, lastArgs, lastRes, ncalls, trapped, calls >>

\* link_resolver.json_stream(&logger, &Link { link })?
ipfs_map_open(stream_ok) ==
    /\ ipfs.pc = "open"
    /\ IF stream_ok
       THEN IpfsStep([ipfs EXCEPT !.pc = "next", !.resolver_calls = @ + 1])
       ELSE IpfsReturn(IpfsQuestionMark(Err("Resolver", HostExportErrorFromAnyhow)),
                       [ipfs EXCEPT !.resolver_calls = @ + 1])

\* What stream.next() yields: the end of the stream, a read error, or a record.
StreamItems == {"end", "error"} \cup JsonValues

\* while let Some(sv) = block_on03(stream.next()) { let sv = sv?; .. } Ok(v)
ipfs_map_next(item) ==
    /\ ipfs.pc = "next"
    /\ item # "end" => Len(ipfs.read) < MaxRecords
    /\ IF item = "end"
       THEN IpfsReturn(IpfsMapErr(OkVal(ipfs.v), IpfsErrmsg(ipfs.callback, ipfs.link)), ipfs)
       ELSE IF item = "error"
       THEN IpfsReturn(IpfsQuestionMark(Err("Stream", HostExportErrorFromAnyhow)), ipfs)
       ELSE IpfsStep([ipfs EXCEPT !.pc = "spawn", !.cur = item, !.read = Append(@, item)])

\* The spawned instance handed the block state of the calling instance.
derive_with_shared_block_state(state) ==
    [entity_cache |-> state.entity_cache,
     created_data_sources |-> state.created_data_sources]

\* ctx.derive_with_empty_block_state(), the context each spawned instance is given:
\* nothing of the calling instance's block state goes into it.
derive_with_empty_block_state(state) == EmptyBlockState

\* WasmInstance::from_valid_module_with_ctx(.., ctx.derive_with_empty_block_state(), ..)?
ipfs_map_spawn(spawn_ok) ==
    /\ ipfs.pc = "spawn"
    /\ IF spawn_ok
       THEN IpfsStep([ipfs EXCEPT !.pc = "callback", !.spawned = @ + 1,
                                  !.instance = derive_with_empty_block_state(BlockState)])
       ELSE IpfsReturn(IpfsQuestionMark(Err("Spawn", HostExportErrorFromAnyhow)), ipfs)

\* module.handle_json_callback(&callback, &sv.value, &user_data)?; v.push(result)
ipfs_map_callback(callback_ok) ==
    /\ ipfs.pc = "callback"
    /\ IF callback_ok
       THEN IpfsStep([ipfs EXCEPT !.pc = "next", !.callbacks = @ + 1,
                                  !.v = IpfsPush(@, handle_json_callback(ipfs.instance,
                                                                         ipfs.cur))])
       ELSE IpfsReturn(IpfsQuestionMark(Err("Callback", HostExportErrorFromAnyhow)),
                       [ipfs EXCEPT !.callbacks = @ + 1])

\* -------------------------------------------------------------------- log_log
\* The error type of the exports that return Result<_, DeterministicHostError>.
DeterministicHostError == "Deterministic"

\* slog::Level
Levels == {"Critical", "Error", "Warning", "Info", "Debug", "Trace"}
Messages == {"m"}

PureArgs(inputs) == [key |-> NoKey, data |-> EmptyMap, name |-> inputs]

\* logger.log(&slog::Record::new(&rs, &format_args!("{}", msg), ..))
LogLogEmit(records, level, msg) == Append(records, LogRecord(level, msg))

\* The escalation of the critical level left out.
LogLogResultNeverFails(level) == Ok

\* if level == slog::Level::Critical { return Err(DeterministicHostError(..)) } Ok(())
LogLogResult(level) ==
    IF level = "Critical" THEN Err("CriticalLog", DeterministicHostError) ELSE Ok

log_log(level, msg, cost) ==
    LET charged == consume_host_fn(gas, cost)
        args == PureArgs(<< level, msg >>)
    IN  /\ CanCall
        /\ gas' = charged.gas
        /\ IF ~charged.ok
           THEN /\ logged' = << >>
                /\ Computed("log_log", args, Err("OutOfGas", DeterministicHostError))
           ELSE /\ logged' = LogLogEmit(<< >>, level, msg)
                /\ Computed("log_log", args, LogLogResult(level))

\* ---------------------------------------------------------------------- abort
AbortMessages == {None, Some("halt")}
FileNames == {None, Some("mapping.ts")}
LineNumbers == {None, Some(12)}
ColumnNumbers == {None, Some(5)}

\* message.map(|message| format!("message: {}", message)).unwrap_or_else(|| "no message")
AbortMessage(message) ==
    IF message = None THEN << "no message" >> ELSE << "message", message[1] >>

\* The match on (file_name, line_number, column_number): the location, or None
\* where the match reaches unreachable!().
AbortLocation(file_name, line_number, column_number) ==
    CASE file_name = None /\ line_number = None /\ column_number = None ->
            Some(<< "an unknown location" >>)
      [] file_name # None /\ line_number = None /\ column_number = None ->
            Some(<< file_name[1] >>)
      [] file_name # None /\ line_number # None /\ column_number = None ->
            Some(<< file_name[1], line_number[1] >>)
      [] file_name # None /\ line_number # None /\ column_number # None ->
            Some(<< file_name[1], line_number[1], column_number[1] >>)
      [] OTHER -> None

abort(message, file_name, line_number, column_number, cost) ==
    LET charged == consume_host_fn(gas, cost)
        args == PureArgs(<< message, file_name, line_number, column_number >>)
        location == AbortLocation(file_name, line_number, column_number)
    IN  /\ CanCall
        /\ gas' = charged.gas
        /\ logged' = << >>
        /\ IF ~charged.ok
           THEN Computed("abort", args, Err("OutOfGas", DeterministicHostError))
           ELSE IF location = None
           \* unreachable!() panics: no Result is returned.
           THEN Computed("abort", args, Err("Panic", "Panic"))
           ELSE Computed("abort", args,
                         [Err("Aborted", DeterministicHostError) EXCEPT
                             !.ctx = Some([location |-> location[1],
                                           message |-> AbortMessage(message)])])

\* ----------------------------------------------------------------- big integers
\* The big integers the mapping passes to the division operations.
MaxBigInt == 3
BigInts == (0 - MaxBigInt)..MaxBigInt

Abs(n) == IF n < 0 THEN 0 - n ELSE n
Sign(n) == IF n < 0 THEN 0 - 1 ELSE IF n = 0 THEN 0 ELSE 1

\* BigInt `x / y`: the magnitudes divided, rounded toward zero, with the sign
\* of the product.
BigIntDiv(x, y) == Sign(x) * Sign(y) * (Abs(x) \div Abs(y))

\* The remainder with the sign of the divisor.
BigIntRemFloored(x, y) == Sign(y) * ((Sign(x) * Sign(y) * Abs(x)) % Abs(y))

\* BigInt `x % y`: the remainder of the magnitudes, with the sign of the dividend.
BigIntRem(x, y) == Sign(x) * (Abs(x) % Abs(y))

big_int_divided_by(x, y, cost) ==
    LET charged == consume_host_fn(gas, cost)
        args == PureArgs(<< x, y >>)
    IN  /\ CanCall
        /\ gas' = charged.gas
        /\ logged' = << >>
        /\ IF ~charged.ok
           THEN Computed("big_int_divided_by", args, Err("OutOfGas", DeterministicHostError))
           ELSE IF y = 0
           THEN Computed("big_int_divided_by", args,
                         Err("DivisionByZero", DeterministicHostError))
           ELSE Computed("big_int_divided_by", args, OkVal(BigIntDiv(x, y)))

big_int_mod(x, y, cost) ==
    LET charged == consume_host_fn(gas, cost)
        args == PureArgs(<< x, y >>)
    IN  /\ CanCall
        /\ gas' = charged.gas
        /\ logged' = << >>
        /\ IF ~charged.ok
           THEN Computed("big_int_mod", args, Err("OutOfGas", DeterministicHostError))
           ELSE IF y = 0
           THEN Computed("big_int_mod", args, Err("DivisionByZero", DeterministicHostError))
           ELSE Computed("big_int_mod", args, OkVal(BigIntRem(x, y)))

\* BigDecimal: an integer and the number of its digits after the decimal point.
MaxDecimalInt == 1
Scales == {0, 1}
BigDecimals == {[int |-> i, scale |-> e] : i \in (0 - MaxDecimalInt)..MaxDecimalInt,
                                            e \in Scales}

RECURSIVE Pow10(_)
Pow10(e) == IF e = 0 THEN 1 ELSE 10 * Pow10(e - 1)

\* y == 0.into(): a zero of any scale.
BigDecimalIsZero(y) == y.int = 0

\* BigDecimal `x / y`: the quotient, as the fraction the division expands to
\* at most 100 decimal digits.
BigDecimalDiv(x, y) ==
    [num |-> x.int * Pow10(y.scale), den |-> y.int * Pow10(x.scale)]

big_decimal_divided_by(x, y, cost) ==
    LET charged == consume_host_fn(gas, cost)
        args == PureArgs(<< x, y >>)
    IN  /\ CanCall
        /\ gas' = charged.gas
        /\ logged' = << >>
        /\ IF ~charged.ok
           THEN Computed("big_decimal_divided_by", args,
                         Err("OutOfGas", DeterministicHostError))
           ELSE IF BigDecimalIsZero(y)
           THEN Computed("big_decimal_divided_by", args,
                         Err("DivisionByZero", DeterministicHostError))
           ELSE Computed("big_decimal_divided_by", args, OkVal(BigDecimalDiv(x, y)))

\* ------------------------------------------------------------- big_int_to_hex
\* The big integers the mapping prints in hex.
MaxHexDigits == 3
HexDigitValues == {0, 1, 15}

\* The magnitudes of at most so many hex digits, each digit one of those values.
RECURSIVE HexMagnitudes(_)
HexMagnitudes(digits) ==
    IF digits = 0 THEN {0}
    ELSE {16 * m + d : m \in HexMagnitudes(digits - 1), d \in HexDigitValues}

HexInts == {sign * m : sign \in {0 - 1, 1}, m \in HexMagnitudes(MaxHexDigits)}

\* The bytes of a magnitude, most significant first; zero has none.
RECURSIVE MagnitudeBytesBE(_)
MagnitudeBytesBE(m) ==
    IF m = 0 THEN << >> ELSE Append(MagnitudeBytesBE(m \div 256), m % 256)

\* BigInt::to_bytes_be: the sign and the big-endian bytes of the magnitude.
ToBytesBE(n) == << Sign(n), MagnitudeBytesBE(Abs(n)) >>

HexChars == << "0", "1", "2", "3", "4", "5", "6", "7", "8", "9",
               "a", "b", "c", "d", "e", "f" >>

\* ::hex::encode: two lower-case digits per byte.
HexEncode(bytes) ==
    [i \in 1..(2 * Len(bytes)) |->
        IF i % 2 = 1 THEN HexChars[(bytes[(i + 1) \div 2] \div 16) + 1]
        ELSE HexChars[(bytes[i \div 2] % 16) + 1]]

\* The digits as encoded, nothing trimmed.
TrimStartNothing(str, c) == str

\* str::trim_start_matches(c): every leading c removed.
RECURSIVE TrimStartMatches(_, _)
TrimStartMatches(str, c) ==
    IF str # << >> /\ Head(str) = c THEN TrimStartMatches(Tail(str), c) ELSE str

big_int_to_hex(n, cost) ==
    LET charged == consume_host_fn(gas, cost)
        args == PureArgs(<< n >>)
        bytes == ToBytesBE(n)[2]
    IN  /\ CanCall
        /\ gas' = charged.gas
        /\ logged' = << >>
        /\ IF ~charged.ok
           THEN Computed("big_int_to_hex", args, Err("OutOfGas", DeterministicHostError))
           ELSE IF n = 0
           THEN Computed("big_int_to_hex", args, OkVal(<< "0", "x", "0" >>))
           ELSE Computed("big_int_to_hex", args,
                         OkVal(<< "0", "x" >> \o TrimStartMatches(HexEncode(bytes), "0")))

\* ------------------------------------------------------------- string_to_h160
\* H160: an address of 20 bytes.
H160Bytes == 20

\* The address of the test test_string_to_h160_with_0x, without its prefix.
TestAddress ==
    << "A", "1", "6", "0", "8", "1", "F", "3", "6", "0",
       "e", "3", "8", "4", "7", "0", "0", "6", "d", "B",
       "6", "6", "0", "b", "a", "e", "1", "c", "6", "d",
       "1", "b", "2", "e", "1", "7", "e", "C", "2", "A" >>

ZeroAddress == [i \in 1..(2 * H160Bytes) |-> "0"]

\* "0x" repeated.
MaxPrefixes == 2
RECURSIVE Prefixed(_, _)
Prefixed(count, str) == IF count = 0 THEN str ELSE << "0", "x" >> \o Prefixed(count - 1, str)

\* A string with one character more, one less, or one replaced by a letter
\* that is no hex digit.
Variants(str) ==
    {str, Append(str, "0"), SubSeq(str, 1, Len(str) - 1)}
        \cup {[str EXCEPT ![i] = "g"] : i \in {1, Len(str)}}

\* The strings the mapping passes to string_to_h160.
AddressStrings ==
    {Prefixed(count, body) : count \in 0..MaxPrefixes,
                             body \in Variants(TestAddress) \cup Variants(ZeroAddress)}
        \cup {<< "0", "X" >> \o TestAddress, << "x" >> \o TestAddress, << >>}

HexCharsUpper == << "0", "1", "2", "3", "4", "5", "6", "7", "8", "9",
                    "A", "B", "C", "D", "E", "F" >>

IsHexChar(c) == \E i \in 1..16 : HexChars[i] = c \/ HexCharsUpper[i] = c

\* The value of a hex digit of either case.
FromHexChar(c) == (CHOOSE i \in 1..16 : HexChars[i] = c \/ HexCharsUpper[i] = c) - 1

\* H160::from_str: exactly 40 hex digits, two per byte; None for its error.
H160FromStr(str) ==
    IF Len(str) = 2 * H160Bytes /\ \A i \in 1..Len(str) : IsHexChar(str[i])
    THEN Some([i \in 1..H160Bytes |->
                  16 * FromHexChar(str[2 * i - 1]) + FromHexChar(str[2 * i])])
    ELSE None

StartsWith(str, pat) == Len(str) >= Len(pat) /\ SubSeq(str, 1, Len(pat)) = pat

\* str::trim_start_matches(pat): the prefix removed as often as it matches.
RECURSIVE TrimStartMatchesStr(_, _)
TrimStartMatchesStr(str, pat) ==
    IF StartsWith(str, pat)
    THEN TrimStartMatchesStr(SubSeq(str, Len(pat) + 1, Len(str)), pat)
    ELSE str

\* fn string_to_h160(string: &str) -> Result<H160, DeterministicHostError>
string_to_h160_fn(string) ==
    LET str == TrimStartMatchesStr(string, << "0", "x" >>)
        parsed == H160FromStr(str)
    IN  IF parsed = None THEN Err("InvalidAddress", DeterministicHostError)
        ELSE OkVal(parsed[1])

string_to_h160(string, cost) ==
    LET charged == consume_host_fn(gas, cost)
        args == PureArgs(<< string >>)
    IN  /\ CanCall
        /\ gas' = charged.gas
        /\ logged' = << >>
        /\ IF ~charged.ok
           THEN Computed("string_to_h160", args, Err("OutOfGas", DeterministicHostError))
           ELSE Computed("string_to_h160", args, string_to_h160_fn(string))

\* ------------------------------------------------------------ bytes_to_string
\* A string is the sequence of its characters, each its code point.
REPLACEMENT_CHARACTER == 65533
NUL == 0

\* The bytes a character takes in UTF-8.
Utf8Len(c) == IF c < 128 THEN 1 ELSE IF c < 2048 THEN 2 ELSE IF c < 65536 THEN 3 ELSE 4

\* The length of the sequence a lead byte starts; 0 for a byte that starts none.
Utf8Width(b) ==
    IF b < 128 THEN 1
    ELSE IF b >= 194 /\ b <= 223 THEN 2
    ELSE IF b >= 224 /\ b <= 239 THEN 3
    ELSE IF b >= 240 /\ b <= 244 THEN 4
    ELSE 0

\* The second byte a lead byte admits; the later ones are 0x80..0xBF.
Utf8SecondOk(lead, b) ==
    CASE lead = 224 -> b >= 160 /\ b <= 191
      [] lead = 237 -> b >= 128 /\ b <= 159
      [] lead = 240 -> b >= 144 /\ b <= 191
      [] lead = 244 -> b >= 128 /\ b <= 143
      [] OTHER -> b >= 128 /\ b <= 191

\* The bytes from position i that continue the sequence of the lead byte there.
Utf8Continued(bytes, i) ==
    LET lead == bytes[i]
        ok(k) == /\ i + k <= Len(bytes)
                 /\ IF k = 1 THEN Utf8SecondOk(lead, bytes[i + k])
                    ELSE bytes[i + k] >= 128 /\ bytes[i + k] <= 191
    IN  IF Utf8Width(lead) <= 1 \/ ~ok(1) THEN 0
        ELSE IF Utf8Width(lead) = 2 \/ ~ok(2) THEN 1
        ELSE IF Utf8Width(lead) = 3 \/ ~ok(3) THEN 2
        ELSE 3

\* The character a complete sequence at position i encodes.
Utf8Char(bytes, i) ==
    LET lead == bytes[i]
        w == Utf8Width(lead)
        low(k) == bytes[i + k] - 128
    IN  CASE w = 1 -> lead
          [] w = 2 -> (lead - 192) * 64 + low(1)
          [] w = 3 -> ((lead - 224) * 64 + low(1)) * 64 + low(2)
          [] w = 4 -> (((lead - 240) * 64 + low(1)) * 64 + low(2)) * 64 + low(3)

\* One step of String::from_utf8_lossy at position i: the character of a
\* complete sequence, or the replacement character for an invalid one, and the
\* position after it.
Utf8Step(bytes, i) ==
    LET w == Utf8Width(bytes[i])
        got == 1 + Utf8Continued(bytes, i)
    IN  IF w # 0 /\ got = w
        THEN [char |-> Utf8Char(bytes, i), next |-> i + w, valid |-> TRUE]
        ELSE [char |-> REPLACEMENT_CHARACTER, next |-> i + got, valid |-> FALSE]

\* The steps from position i up to the first one that ends at or after `stop`:
\* the characters, whether every sequence was valid, and the position reached.
\* The range is halved so that long inputs do not nest deeply.
RECURSIVE FromUtf8LossyRange(_, _, _)
FromUtf8LossyRange(bytes, i, stop) ==
    IF i >= stop THEN [chars |-> << >>, valid |-> TRUE, next |-> i]
    ELSE IF stop - i <= 4
    THEN LET step == Utf8Step(bytes, i)
             rest == FromUtf8LossyRange(bytes, step.next, stop)
         IN  [chars |-> << step.char >> \o rest.chars,
              valid |-> step.valid /\ rest.valid,
              next |-> rest.next]
    ELSE LET left == FromUtf8LossyRange(bytes, i, (i + stop) \div 2)
             right == FromUtf8LossyRange(bytes, left.next, stop)
         IN  [chars |-> left.chars \o right.chars,
              valid |-> left.valid /\ right.valid,
              next |-> right.next]

\* String::from_utf8_lossy: the characters, every invalid sequence replaced,
\* and whether the bytes were valid (Cow::Borrowed) or not (Cow::Owned).
FromUtf8Lossy(bytes) == FromUtf8LossyRange(bytes, 1, Len(bytes) + 1)

\* str::len: the length of a string in bytes.
RECURSIVE StrLen(_)
StrLen(str) ==
    IF str = << >> THEN 0
    ELSE IF Len(str) = 1 THEN Utf8Len(str[1])
    ELSE StrLen(SubSeq(str, 1, Len(str) \div 2))
             + StrLen(SubSeq(str, Len(str) \div 2 + 1, Len(str)))

\* &s[..end], for end <= s.len(): the characters of the first `end` bytes; a
\* panic when `end` falls inside a character.
RECURSIVE SliceTo(_, _)
SliceTo(str, end) ==
    IF end = 0 THEN [panic |-> FALSE, chars |-> << >>]
    ELSE IF Len(str) = 1
    THEN IF Utf8Len(str[1]) > end THEN [panic |-> TRUE, chars |-> << >>]
         ELSE [panic |-> FALSE, chars |-> str]
    ELSE LET left == SubSeq(str, 1, Len(str) \div 2)
             right == SubSeq(str, Len(str) \div 2 + 1, Len(str))
         IN  IF end <= StrLen(left) THEN SliceTo(left, end)
             ELSE LET rest == SliceTo(right, end - StrLen(left))
                  IN  [panic |-> rest.panic, chars |-> left \o rest.chars]

\* The bytes of the string the warning shows.
WarnTruncate == 1024

Min(a, b) == IF a < b THEN a ELSE b

\* str::trim_end_matches(c): every trailing c removed.
RECURSIVE TrimEndMatches(_, _)
TrimEndMatches(str, c) ==
    IF str # << >> /\ str[Len(str)] = c
    THEN TrimEndMatches(SubSeq(str, 1, Len(str) - 1), c)
    ELSE str

\* fn bytes_to_string(logger: &Logger, bytes: Vec<u8>) -> String: what it logs and
\* returns, or the panic of the slice in the warning.
bytes_to_string_fn(bytes) ==
    LET lossy == FromUtf8Lossy(bytes)
        shown == SliceTo(lossy.chars, Min(StrLen(lossy.chars), WarnTruncate))
    IN  IF ~lossy.valid /\ shown.panic
        THEN [panic |-> TRUE, warned |-> << >>, string |-> << >>]
        ELSE [panic |-> FALSE,
              warned |-> IF lossy.valid THEN << >>
                         ELSE << LogRecord("Warning", shown.chars) >>,
              string |-> TrimEndMatches(lossy.chars, NUL)]

\* The bytes the mapping converts: short ones over a few byte values, the two
\* vectors of the test bytes_to_string_is_lossy, and invalid ones whose lossy
\* decoding is about as long as the warning shows.
MaxBytesLen == 3
ByteValues == {68, 0, 160, 195, 169}

RECURSIVE ByteStrings(_)
ByteStrings(len) ==
    IF len = 0 THEN {<< >>}
    ELSE ByteStrings(len - 1) \cup
         {Append(bytes, b) : bytes \in ByteStrings(len - 1), b \in ByteValues}

Downcoin == << 68, 111, 119, 110, 99, 111, 105, 110, 32, 87, 69, 84, 72, 45, 85, 83, 68, 84 >>

LongInvalid ==
    {[i \in 1..count |-> 160] \o tail :
        count \in {WarnTruncate \div 3, WarnTruncate \div 3 + 1},
        tail \in {<< >>, << 68, 0 >>}}

ByteInputs ==
    ByteStrings(MaxBytesLen)
        \cup {Downcoin, Downcoin \o << 160 >> \o [i \in 1..13 |-> 0]}
        \cup LongInvalid

bytes_to_string(bytes, cost) ==
    LET charged == consume_host_fn(gas, cost)
        args == PureArgs(<< bytes >>)
        out == bytes_to_string_fn(bytes)
    IN  /\ CanCall
        /\ gas' = charged.gas
        /\ IF ~charged.ok
           THEN /\ logged' = << >>
                /\ Computed("bytes_to_string", args, Err("OutOfGas", DeterministicHostError))
           ELSE IF out.panic
           THEN /\ logged' = << >>
                /\ Computed("bytes_to_string", args, Err("Panic", "Panic"))
           ELSE /\ logged' = out.warned
                /\ Computed("bytes_to_string", args, OkVal(out.string))

\* ------------------------------------------------------------------ the block

\* The keys the store holds when the block starts: none, or one of them.
HeldKeys == {{}, {EntityKey("Token", "a")}}

Init ==
    /\ store \in {[k \in Keys |-> IF k \in held THEN Some(StoredEntity(k)) ELSE None] :
                    held \in HeldKeys}
    /\ entity_cache = NoCache
    /\ created_data_sources = << >>
    /\ proof_of_indexing \in {None, Some(<< >>)}
    /\ gas = 0
    /\ trapped = FALSE
    /\ ncalls = 0
    /\ lastOp = "none"
    /\ lastArgs = NoArgs
    /\ lastRes = Ok
    /\ pre = [entity_cache |-> NoCache, created_data_sources |-> << >>,
              proof_of_indexing |-> proof_of_indexing, gas |-> 0]
    /\ adapter_calls = << >>
    /\ ipfs = IpfsIdle
    /\ calls = << >>
    /\ logged = << >>
    /\ cache_reads = 0

\* The operations on the block state: the store and the created data sources.
Next ==
    \/ \E t \in EntityTypes, i \in EntityIds, d \in FieldMaps, c \in GasCosts,
          o \in StoreOutcomes : store_set(t, i, d, c, o)
    \/ \E t \in EntityTypes, i \in EntityIds, c \in GasCosts : store_remove(t, i, c)
    \/ \E t \in EntityTypes, i \in EntityIds, c \in GasCosts, ok \in BOOLEAN :
          store_get(t, i, c, ok)
    \/ \E n \in TemplateNames, p \in ParamLists, x \in Contexts, b \in BlockNumbers,
          c \in GasCosts : data_source_create(n, p, x, b, c)

\* The contract calls of a handler.
NextEth ==
    \E cn \in ContractNames, fn \in FunctionNames,
       sig \in {None} \cup {Some(x) : x \in FunctionSignatures},
       o \in AdapterOutcomes, c \in GasCosts : ethereum_call(cn, fn, sig, o, c)

\* The streaming maps of a handler, each step by step.
NextIpfs ==
    \/ \E l \in Links, cb \in Callbacks, f \in FlagLists : ipfs_map(l, cb, f)
    \/ \E ok \in BOOLEAN : ipfs_map_open(ok)
    \/ \E item \in StreamItems : ipfs_map_next(item)
    \/ \E ok \in BOOLEAN : ipfs_map_spawn(ok)
    \/ \E ok \in BOOLEAN : ipfs_map_callback(ok)

\* The streaming maps of a handler that also creates data sources.
NextMap ==
    \/ NextIpfs
    \/ \E n \in TemplateNames, p \in ParamLists, x \in Contexts, b \in BlockNumbers,
          c \in GasCosts : data_source_create(n, p, x, b, c)

\* The diagnostics of a handler that also creates data sources.
NextLog ==
    \/ \E l \in Levels, m \in Messages, c \in GasCosts : log_log(l, m, c)
    \/ \E m \in AbortMessages, f \in FileNames, l \in LineNumbers, col \in ColumnNumbers,
          c \in GasCosts : abort(m, f, l, col, c)
    \/ \E n \in TemplateNames, p \in ParamLists, x \in Contexts, b \in BlockNumbers,
          c \in GasCosts : data_source_create(n, p, x, b, c)

\* The arithmetic of a handler.
NextBig ==
    \/ \E x \in BigInts, y \in BigInts, c \in GasCosts : big_int_divided_by(x, y, c)
    \/ \E x \in BigInts, y \in BigInts, c \in GasCosts : big_int_mod(x, y, c)
    \/ \E x \in BigDecimals, y \in BigDecimals, c \in GasCosts :
          big_decimal_divided_by(x, y, c)

\* The hex printing of a handler.
NextHex == \E n \in HexInts, c \in GasCosts : big_int_to_hex(n, c)

\* The conversions of a handler.
NextConv ==
    \/ \E str \in AddressStrings, c \in GasCosts : string_to_h160(str, c)
    \/ \E bytes \in ByteInputs, c \in GasCosts : bytes_to_string(bytes, c)

Spec == Init /\ [][Next]_vars
SpecConv == Init /\ [][NextConv]_vars
SpecBig == Init /\ [][NextBig]_vars
SpecHex == Init /\ [][NextHex]_vars
SpecLog == Init /\ [][NextLog]_vars
SpecEth == Init /\ [][NextEth]_vars
SpecIpfs == Init /\ [][NextIpfs]_vars
SpecMap == Init /\ [][NextMap]_vars

\* --------------------------------------------------------------------- claims
\* The proof-of-indexing log extended by one event of the data source's region.
LogPlus(poi, event) ==
    IF poi = None THEN None
    ELSE Some(poi[1] \o << [region |-> << "ethereum", "mainnet" >>, event |-> event] >>)

\* C1: a call that fails because its declared cost pushes the cumulative gas
\* over the budget leaves the entity cache, the proof-of-indexing log and the
\* list of created data sources exactly as they were before the call.
C1_OutOfGasLeavesStateUntouched ==
    (lastOp # "none" /\ lastRes.err = "OutOfGas") =>
        /\ entity_cache = pre.entity_cache
        /\ proof_of_indexing = pre.proof_of_indexing
        /\ created_data_sources = pre.created_data_sources

\* The call arguments for which ethereum_call finds the contract ABI and the
\* function: by name when no signature is given, by exact signature otherwise.
ResolvableCalls ==
    { << "ERC20", "transfer", None >>,
      << "ERC20", "transfer", Some("transfer(address,uint256)") >>,
      << "ERC20", "transfer", Some("transfer(address,uint256,bytes)") >> }

\* C2: in ethereum_call, an ABI that is not attached or a function that cannot
\* be resolved yields an error classified Deterministic.
C2_UnresolvedCallIsDeterministic ==
    (lastOp = "ethereum_call" /\ lastRes.err # "OutOfGas"
        /\ lastArgs.name \notin ResolvableCalls) =>
        /\ ~lastRes.ok
        /\ lastRes.class = "Deterministic"

\* C3: once contract and function are resolved the adapter is called exactly
\* once and its outcome decides the result: success is Ok(Some(tokens)), a
\* revert is Ok(None), a Web3 error or a timeout is PossibleReorg, any other
\* adapter error is Unknown, none is Deterministic; and no ethereum_call calls
\* the adapter more than once.
C3_AdapterOutcomeClassified ==
    /\ Len(adapter_calls) <= 1
    /\ (lastOp = "ethereum_call" /\ lastRes.err # "OutOfGas"
            /\ lastArgs.name \in ResolvableCalls) =>
          /\ Len(adapter_calls) = 1
          /\ LET o == adapter_calls[1]
             IN  /\ o = "Ok" => lastRes.ok /\ lastRes.val # None
                 /\ o = "Revert" => lastRes.ok /\ lastRes.val = None
                 /\ o \in {"Web3Error", "Timeout"} =>
                        ~lastRes.ok /\ lastRes.class = "PossibleReorg"
                 /\ o \notin {"Ok", "Revert", "Web3Error", "Timeout"} =>
                        ~lastRes.ok /\ lastRes.class = "Unknown"
                 /\ lastRes.class # "Deterministic"
    /\ (lastOp = "ethereum_call" /\ lastArgs.name \notin ResolvableCalls) =>
          adapter_calls = << >>

\* A call by signature that the contract reverted.
C3_Witness ==
    /\ lastOp = "ethereum_call"
    /\ lastArgs.name[3] # None
    /\ adapter_calls = << "Revert" >>
    /\ lastRes.ok
    /\ lastRes.val = None

\* C4: store_set whose field map holds an `id` other than the string passed as
\* entity id fails with an error classified Deterministic and leaves the
\* entity cache as it was.
C4_IdConflictIsDeterministic ==
    (lastOp = "store_set" /\ lastArgs.data["id"] # Absent
        /\ lastArgs.data["id"] # Str(lastArgs.key.entity_id)) =>
        /\ ~lastRes.ok
        /\ lastRes.class = "Deterministic"
        /\ entity_cache = pre.entity_cache

\* The calls before the last one.
Earlier == 1..(Len(calls) - 1)

\* A store_set of the key succeeded earlier and no store_remove of it was
\* called since.
SetAndNotRemoved(key) ==
    \E i \in Earlier :
        /\ calls[i].op = "store_set" /\ calls[i].args.key = key /\ calls[i].res.ok
        /\ \A j \in Earlier : j > i => ~(calls[j].op = "store_remove" /\ calls[j].args.key = key)

\* C5: after a successful store_set of a key, a store_get of that key in the
\* same block, with no store_remove of it in between, returns an entity that
\* is present and whose `id` field is the key's entity id, whether or not the
\* field map carried an `id` and whatever the store held.
C5_GetAfterSetHasKeyId ==
    (lastOp = "store_get" /\ lastRes.ok /\ SetAndNotRemoved(lastArgs.key)) =>
        /\ lastRes.val # None
        /\ lastRes.val[1]["id"] = Str(lastArgs.key.entity_id)

\* A set without an `id` field on a key the store does not hold, then the get.
C5_Witness ==
    /\ Len(calls) = 2
    /\ calls[1].op = "store_set" /\ calls[1].res.ok
    /\ calls[1].args.data["id"] = Absent
    /\ lastOp = "store_get" /\ lastRes.ok
    /\ lastArgs.key = calls[1].args.key
    /\ store[lastArgs.key] = None
    /\ lastRes.val # None

\* A store_remove of the key succeeded earlier and no store_set of it was
\* called since.
RemovedAndNotSet(key) ==
    \E i \in Earlier :
        /\ calls[i].op = "store_remove" /\ calls[i].args.key = key /\ calls[i].res.ok
        /\ \A j \in Earlier : j > i => ~(calls[j].op = "store_set" /\ calls[j].args.key = key)

\* C6: a successful store_remove appends exactly one RemoveEntity{type,id}
\* event to the proof-of-indexing log when there is one, and removes the key
\* from the entity cache; a store_get of the key afterwards returns none until
\* a later store_set of the key, even when the store holds an entity for it.
C6_RemoveLogsAndHidesKey ==
    /\ (lastOp = "store_remove" /\ lastRes.ok) =>
          /\ proof_of_indexing =
                LogPlus(pre.proof_of_indexing,
                        [kind |-> "RemoveEntity", entity_type |-> lastArgs.key.entity_type,
                         id |-> lastArgs.key.entity_id, data |-> EmptyMap])
          /\ entity_cache[lastArgs.key].kind = "Remove"
          /\ \A k \in Keys \ {lastArgs.key} : entity_cache[k] = pre.entity_cache[k]
    /\ (lastOp = "store_get" /\ lastRes.ok /\ RemovedAndNotSet(lastArgs.key)) =>
          lastRes.val = None

\* The store holds the key, the block removed it, and the get returns none.
C6_Witness ==
    /\ lastOp = "store_get" /\ lastRes.ok
    /\ RemovedAndNotSet(lastArgs.key)
    /\ store[lastArgs.key] # None
    /\ proof_of_indexing # None
    /\ lastRes.val = None

\* The event a store call writes to the log; the other calls write none.
EventOf(call) ==
    CASE call.op = "store_set" ->
            << [kind |-> "SetEntity", entity_type |-> call.args.key.entity_type,
                id |-> call.args.key.entity_id, data |-> call.args.data] >>
      [] call.op = "store_remove" ->
            << [kind |-> "RemoveEntity", entity_type |-> call.args.key.entity_type,
                id |-> call.args.key.entity_id, data |-> EmptyMap] >>
      [] OTHER -> << >>

RECURSIVE EventsOf(_)
EventsOf(cs) ==
    IF cs = << >> THEN << >>
    ELSE EventsOf(SubSeq(cs, 1, Len(cs) - 1)) \o EventOf(cs[Len(cs)])

\* C7: the proof-of-indexing log is append-only and ordered like the calls: it
\* holds, in call order, one event per store_set and store_remove call, each
\* tagged with the data source's causality region; the last call left the
\* events before it as they were and appended at most one; store_get and the
\* non-store operations append nothing.
C7_LogFollowsCalls ==
    proof_of_indexing # None =>
        LET log == proof_of_indexing[1]
            before == pre.proof_of_indexing[1]
        IN  /\ [i \in 1..Len(log) |-> log[i].event] = EventsOf(calls)
            /\ \A i \in 1..Len(log) : log[i].region = << "ethereum", "mainnet" >>
            /\ Len(before) <= Len(log) /\ Len(log) <= Len(before) + 1
            /\ SubSeq(log, 1, Len(before)) = before
            /\ lastOp \notin {"store_set", "store_remove"} => log = before

\* A set, a remove and a created data source, in that order.
C7_Witness ==
    /\ proof_of_indexing # None
    /\ Len(calls) = 3
    /\ calls[1].op = "store_set"
    /\ calls[2].op = "store_remove"
    /\ calls[3].op = "data_source_create"
    /\ Len(proof_of_indexing[1]) = 2
    /\ proof_of_indexing[1][1].event.kind = "SetEntity"
    /\ proof_of_indexing[1][2].event.kind = "RemoveEntity"

\* The template of the data source that has the name.
TemplateNamed(name) ==
    CHOOSE t \in {templates[i] : i \in 1..Len(templates)} : t.name = name

\* The request of a data_source_create call.
RequestOf(call) ==
    [template |-> TemplateNamed(call.args.name[1]), params |-> call.args.name[2],
     context |-> call.args.name[3], creation_block |-> call.args.name[4]]

RECURSIVE RequestsOf(_)
RequestsOf(cs) ==
    IF cs = << >> THEN << >>
    ELSE RequestsOf(SubSeq(cs, 1, Len(cs) - 1)) \o
         (IF cs[Len(cs)].op = "data_source_create" /\ cs[Len(cs)].res.ok
          THEN << RequestOf(cs[Len(cs)]) >> ELSE << >>)

\* C8: data_source_create, its gas paid, fails with a Deterministic error and
\* leaves the created data sources unchanged when no template has the name;
\* otherwise it appends the one DataSourceTemplateInfo of the request at the
\* end, so the list holds the successful requests in call order; it never
\* touches the entity cache.
C8_CreateAppendsRequest ==
    /\ created_data_sources = RequestsOf(calls)
    /\ lastOp = "data_source_create" =>
          /\ entity_cache = pre.entity_cache
          /\ lastRes.err # "OutOfGas" =>
                IF lastArgs.name[1] \in {"Pair", "Vault"}
                THEN /\ lastRes.ok
                     /\ created_data_sources =
                            pre.created_data_sources \o << RequestOf(calls[Len(calls)]) >>
                ELSE /\ ~lastRes.ok
                     /\ lastRes.class = "Deterministic"
                     /\ created_data_sources = pre.created_data_sources

\* Two data sources created from different templates.
C8_Witness ==
    /\ lastOp = "data_source_create" /\ lastRes.ok
    /\ Len(created_data_sources) = 2
    /\ created_data_sources[1].template.name # created_data_sources[2].template.name
    /\ created_data_sources[2].template.name = lastArgs.name[1]

\* The block state the callback leaves when run on a record in a fresh instance.
CallbackState(value) ==
    [entity_cache |-> [k \in Keys |->
                          IF k = [entity_type |-> "Token", entity_id |-> value]
                          THEN [kind |-> "Update",
                                data |-> [id |-> Str(value), owner |-> Str("x")]]
                          ELSE NoOp],
     created_data_sources |-> << >>]

\* C9: ipfs_map with flags containing "json" over a stream of N records whose
\* callbacks all succeed returns exactly N block states, the i-th produced by
\* the callback on the i-th record; it fails only for a missing flag, the
\* resolver, a stream read, a spawn or a callback; without "json" in the flags
\* it fails before the resolver is asked for the stream and before any
\* instance is spawned.
C9_MapReturnsStatesInOrder ==
    /\ (lastOp = "ipfs_map" /\ ipfs.pc = "idle" /\ lastRes.ok) =>
          /\ \E i \in 1..Len(ipfs.flags) : ipfs.flags[i] = "json"
          /\ Len(lastRes.val) = Len(ipfs.read)
          /\ \A i \in 1..Len(ipfs.read) : lastRes.val[i] = CallbackState(ipfs.read[i])
    /\ (lastOp = "ipfs_map" /\ ipfs.pc = "idle" /\ ~lastRes.ok) =>
          lastRes.err \in {"FlagsMustContainJson", "Resolver", "Stream", "Spawn", "Callback"}
    /\ (\A i \in 1..Len(ipfs.flags) : ipfs.flags[i] # "json") =>
          /\ ipfs.pc = "idle"
          /\ ipfs.resolver_calls = 0
          /\ ipfs.spawned = 0
          /\ ipfs.link # "" => lastOp = "ipfs_map" /\ ~lastRes.ok

\* Two different records mapped, in stream order.
C9_Witness ==
    /\ lastOp = "ipfs_map" /\ ipfs.pc = "idle" /\ lastRes.ok
    /\ ipfs.read = << "b", "a" >>
    /\ Len(lastRes.val) = 2
    /\ lastRes.val[1] # lastRes.val[2]

\* C10: the first failure on a record (stream read, spawn or callback) aborts
\* ipfs_map: the error returned names the callback and the link, no collected
\* block state is returned, and no later record is processed.
C10_RecordFailureNamesCallbackAndLink ==
    (lastOp = "ipfs_map" /\ ipfs.pc = "idle"
        /\ lastRes.err \in {"Stream", "Spawn", "Callback"}) =>
        /\ ~lastRes.ok
        /\ lastRes.ctx = << [callback |-> ipfs.callback, link |-> ipfs.link] >>
        /\ lastRes.val = << >>
        /\ ipfs.spawned <= Len(ipfs.read)
        /\ ipfs.callbacks <= ipfs.spawned

\* C11: log_log, its gas paid, emits the one record of its level and message;
\* at the Critical level it then returns a Deterministic error and the handler
\* is aborted, at every other level it returns Ok; the entity cache, the
\* created data sources and the proof-of-indexing log are as before the call.
C11_CriticalLogAborts ==
    (lastOp = "log_log" /\ lastRes.err # "OutOfGas") =>
        /\ logged = << [level |-> lastArgs.name[1], msg |-> lastArgs.name[2]] >>
        /\ IF lastArgs.name[1] = "Critical"
           THEN ~lastRes.ok /\ lastRes.class = "Deterministic" /\ trapped
           ELSE lastRes.ok /\ ~trapped
        /\ entity_cache = pre.entity_cache
        /\ created_data_sources = pre.created_data_sources
        /\ proof_of_indexing = pre.proof_of_indexing

\* A critical log by a handler that had created a data source.
C11_Witness ==
    /\ lastOp = "log_log"
    /\ lastArgs.name[1] = "Critical"
    /\ logged = << [level |-> "Critical", msg |-> "m"] >>
    /\ ~lastRes.ok
    /\ lastRes.class = "Deterministic"
    /\ created_data_sources # << >>

\* C12: abort, its gas paid, returns one Deterministic error for every
\* combination of present and absent message, file name, line number and
\* column number: it never returns Ok and never fails otherwise (a panic).
C12_AbortIsDeterministic ==
    (lastOp = "abort" /\ lastRes.err # "OutOfGas") =>
        /\ ~lastRes.ok
        /\ lastRes.class = "Deterministic"

\* The two arguments of the last call.
ArgX == lastArgs.name[1]
ArgY == lastArgs.name[2]

\* C13: within the gas budget, big_int_divided_by(x, 0), big_int_mod(x, 0) and
\* big_decimal_divided_by(x, 0) fail with a Deterministic error; for y # 0 the
\* two integer operations succeed and the quotient q and the remainder r they
\* return for x and y satisfy q * y + r = x.
C13_DivisionByZeroAndIdentity ==
    /\ (lastOp \in {"big_int_divided_by", "big_int_mod"} /\ lastRes.err # "OutOfGas") =>
          IF ArgY = 0
          THEN ~lastRes.ok /\ lastRes.class = "Deterministic"
          ELSE /\ lastRes.ok
               /\ lastOp = "big_int_divided_by" =>
                      lastRes.val * ArgY + BigIntRem(ArgX, ArgY) = ArgX
               /\ lastOp = "big_int_mod" =>
                      BigIntDiv(ArgX, ArgY) * ArgY + lastRes.val = ArgX
    /\ (lastOp = "big_decimal_divided_by" /\ lastRes.err # "OutOfGas") =>
          IF ArgY.int = 0
          THEN ~lastRes.ok /\ lastRes.class = "Deterministic"
          ELSE lastRes.ok

\* A negative dividend and a positive divisor that does not divide it.
C13_Witness ==
    /\ lastOp = "big_int_mod"
    /\ lastRes.ok
    /\ ArgX = 0 - 3
    /\ ArgY = 2
    /\ lastRes.val = 0 - 1

\* The value of a hex digit.
HexDigitValue ==
    ("0" :> 0) @@ ("1" :> 1) @@ ("2" :> 2) @@ ("3" :> 3) @@ ("4" :> 4) @@ ("5" :> 5) @@
    ("6" :> 6) @@ ("7" :> 7) @@ ("8" :> 8) @@ ("9" :> 9) @@ ("a" :> 10) @@ ("b" :> 11) @@
    ("c" :> 12) @@ ("d" :> 13) @@ ("e" :> 14) @@ ("f" :> 15)

\* The number a string of hex digits denotes.
RECURSIVE HexDecode(_)
HexDecode(digits) ==
    IF digits = << >> THEN 0
    ELSE 16 * HexDecode(SubSeq(digits, 1, Len(digits) - 1)) + HexDigitValue[digits[Len(digits)]]

\* The digits of the string big_int_to_hex returned, after its "0x".
HexDigitsReturned == SubSeq(lastRes.val, 3, Len(lastRes.val))

\* The string returned is "0x" and at least one hex digit.
HexWellFormed ==
    /\ Len(lastRes.val) >= 3
    /\ lastRes.val[1] = "0"
    /\ lastRes.val[2] = "x"
    /\ \A i \in 3..Len(lastRes.val) : lastRes.val[i] \in DOMAIN HexDigitValue

\* C14 as claimed: big_int_to_hex(0) is "0x0"; for a non-zero n of either sign
\* the string is "0x" and hex digits, the first of them not '0', and decoding
\* the string gives n back.
C14_HexRoundTrip ==
    (lastOp = "big_int_to_hex" /\ lastRes.ok) =>
        /\ HexWellFormed
        /\ ArgX = 0 => lastRes.val = << "0", "x", "0" >>
        /\ ArgX # 0 => /\ HexDigitsReturned[1] # "0"
                       /\ HexDecode(HexDigitsReturned) = ArgX

\* C14 amended: big_int_to_hex(0) is "0x0"; for a non-zero n the string is "0x"
\* and hex digits, the first of them not '0', and decoding the string gives
\* the absolute value of n: n for a positive n, -n for a negative one.
C14_HexOfMagnitude ==
    (lastOp = "big_int_to_hex" /\ lastRes.ok) =>
        /\ HexWellFormed
        /\ ArgX = 0 => lastRes.val = << "0", "x", "0" >>
        /\ ArgX # 0 => /\ HexDigitsReturned[1] # "0"
                       /\ HexDecode(HexDigitsReturned) = IF ArgX < 0 THEN 0 - ArgX ELSE ArgX

\* A negative integer of two bytes, the first below sixteen.
C14_Witness ==
    /\ lastOp = "big_int_to_hex"
    /\ lastRes.ok
    /\ ArgX = 0 - 256
    /\ lastRes.val = << "0", "x", "1", "0", "0" >>

\* The value of a hex digit of either case.
HexNibble ==
    HexDigitValue @@ ("A" :> 10) @@ ("B" :> 11) @@ ("C" :> 12) @@ ("D" :> 13) @@
    ("E" :> 14) @@ ("F" :> 15)

\* The string without its "0x" prefix, if it has one: at most one is removed.
WithoutOnePrefix(str) ==
    IF Len(str) >= 2 /\ str[1] = "0" /\ str[2] = "x" THEN SubSeq(str, 3, Len(str)) ELSE str

\* Exactly 40 hex digits.
IsAddressHex(str) == Len(str) = 40 /\ \A i \in 1..Len(str) : str[i] \in DOMAIN HexNibble

\* The 20 bytes that 40 hex digits denote.
AddressOf(str) == [i \in 1..20 |-> 16 * HexNibble[str[2 * i - 1]] + HexNibble[str[2 * i]]]

\* C15: string_to_h160 accepts 40 hex characters, alone or after one "0x"
\* prefix, and returns the address they denote, the same for both; every other
\* input (a character that is no hex digit, or a length other than 40 after at
\* most one "0x" prefix) is rejected with a Deterministic error.
C15_AddressParsing ==
    (lastOp = "string_to_h160" /\ lastRes.err # "OutOfGas") =>
        LET body == WithoutOnePrefix(ArgX)
        IN  IF IsAddressHex(body)
            THEN lastRes.ok /\ lastRes.val = AddressOf(body)
            ELSE ~lastRes.ok /\ lastRes.class = "Deterministic"

\* The string is the other one without the NULs at its end.
IsNulStripped(str, full) ==
    /\ Len(str) <= Len(full)
    /\ str = SubSeq(full, 1, Len(str))
    /\ \A i \in (Len(str) + 1)..Len(full) : full[i] = 0
    /\ str # << >> => str[Len(str)] # 0

\* C16: bytes_to_string never fails; on valid UTF-8 it returns that string
\* without its trailing NULs and emits no warning; on bytes that are not valid
\* UTF-8 it emits one warning and returns the lossy decoding, every invalid
\* sequence replaced by the replacement character, without its trailing NULs.
C16_LossyNeverFails ==
    (lastOp = "bytes_to_string" /\ lastRes.err # "OutOfGas") =>
        LET decoded == FromUtf8Lossy(ArgX)
        IN  /\ lastRes.ok
            /\ IsNulStripped(lastRes.val, decoded.chars)
            /\ decoded.valid => logged = << >>
            /\ ~decoded.valid => Len(logged) = 1 /\ logged[1].level = "Warning"

\* The entity has the fields the schema of Token requires.
SatisfiesSchema(entity) ==
    \A f \in {"id", "owner"} : entity[f].tag = "String"

\* The fields store_set wrote: the field map with the id of the key.
WrittenFields == [lastArgs.data EXCEPT !["id"] = [tag |-> "String", v |-> lastArgs.key.entity_id]]

\* C17: store_set, once it reaches the validation, succeeds without reading the
\* cache when the fields just written satisfy the schema; otherwise it reads
\* the merged entity (the cache over the store) once and succeeds exactly when
\* that entity satisfies the schema; when it does not, the validation error is
\* returned and the write stays in the entity cache.
C17_TwoPhaseValidation ==
    (lastOp = "store_set" /\ lastRes.err \notin {"IdConflict", "OutOfGas", "Store"}) =>
        LET key == lastArgs.key
            merged == EntityCacheGet(entity_cache, store, key)
        IN  /\ SatisfiesSchema(WrittenFields) => lastRes.ok /\ cache_reads = 0
            /\ ~SatisfiesSchema(WrittenFields) =>
                  /\ cache_reads = 1
                  /\ merged # None
                  /\ lastRes.ok <=> SatisfiesSchema(merged[1])
            /\ ~lastRes.ok =>
                  /\ lastRes.err = "Validation"
                  /\ entity_cache[key].kind \in {"Update", "Overwrite"}
                  /\ entity_cache[key] # pre.entity_cache[key]
                  /\ \A f \in {"id", "owner"} :
                        WrittenFields[f].tag = "String" =>
                            entity_cache[key].data[f] = WrittenFields[f]

\* A write without owner on a key the store does not hold: the merged entity
\* fails the schema and the cache keeps the write.
C17_Witness ==
    /\ lastOp = "store_set"
    /\ lastRes.err = "Validation"
    /\ cache_reads = 1
    /\ store[lastArgs.key] = None
    /\ pre.entity_cache[lastArgs.key].kind = "NoOp"
    /\ entity_cache[lastArgs.key].kind = "Update"

\* A write without owner on a key the store holds: the merged entity passes.
C17_FallbackPasses ==
    /\ lastOp = "store_set"
    /\ lastRes.ok
    /\ cache_reads = 1
    /\ lastArgs.data["owner"].tag = "Absent"
    /\ store[lastArgs.key] # None

\* C18: ipfs_map handles the records one after the other and apart from the
\* caller: an instance is spawned only when the callback of every instance
\* spawned before has returned; a spawned instance starts with no entity-cache
\* entry and no created data source; and the block state of the calling
\* instance is, during the call and at its return (success or failure), what it
\* was when ipfs_map was called.
C18_MapIsSequentialAndIsolated ==
    /\ ipfs.spawned - ipfs.callbacks \in {0, 1}
    /\ ipfs.spawned = ipfs.callbacks + 1 <=> ipfs.pc = "callback"
    /\ ipfs.pc = "spawn" => Len(ipfs.read) = ipfs.callbacks + 1
    /\ ipfs.pc = "callback" =>
          /\ \A k \in Keys : ipfs.instance.entity_cache[k].kind = "NoOp"
          /\ ipfs.instance.created_data_sources = << >>
    /\ (ipfs.pc # "idle" \/ lastOp = "ipfs_map") =>
          /\ entity_cache = pre.entity_cache
          /\ created_data_sources = pre.created_data_sources
          /\ proof_of_indexing = pre.proof_of_indexing
          /\ gas = pre.gas

\* The second record's instance is spawned, the first callback having returned,
\* by a caller that has created a data source.
C18_Witness ==
    /\ ipfs.pc = "callback"
    /\ ipfs.spawned = 2
    /\ ipfs.callbacks = 1
    /\ Len(ipfs.v) = 1
    /\ created_data_sources # << >>

\* ipfs_map returned its two block states to a caller whose created data
\* sources are as before.
C18_ReturnedToCaller ==
    /\ lastOp = "ipfs_map" /\ ipfs.pc = "idle" /\ lastRes.ok
    /\ Len(lastRes.val) = 2
    /\ created_data_sources # << >>
    /\ created_data_sources = pre.created_data_sources

\* C19: the proof-of-indexing log agrees with the entity cache: a store_set
\* call that added its SetEntity event went on to write the key into the cache,
\* a store_remove call that added its RemoveEntity event went on to remove the
\* key, and a call failing on an id conflict or on the gas budget added no
\* event.
C19_LogAgreesWithCache ==
    (proof_of_indexing # None /\ lastOp \in {"store_set", "store_remove"}) =>
        LET key == lastArgs.key
            logGrew == proof_of_indexing # pre.proof_of_indexing
        IN  /\ lastRes.err \in {"IdConflict", "OutOfGas"} => ~logGrew
            /\ (logGrew /\ lastOp = "store_set") =>
                  /\ entity_cache[key].kind \in {"Update", "Overwrite"}
                  /\ \A f \in {"id", "owner"} :
                        WrittenFields[f].tag = "String" =>
                            entity_cache[key].data[f] = WrittenFields[f]
            /\ (logGrew /\ lastOp = "store_remove") =>
                  entity_cache[key].kind = "Remove"

\* The calls that fail on the id conflict or on the gas budget aside, the log
\* agrees with the cache but for a store_set that finds no schema.
C19_AgreesButForFailedCalls ==
    (proof_of_indexing # None /\ lastOp \in {"store_set", "store_remove"}
        /\ lastRes.err \notin {"IdConflict", "OutOfGas", "Store"}) =>
        LET key == lastArgs.key
        IN  /\ proof_of_indexing # pre.proof_of_indexing
            /\ lastOp = "store_set" => entity_cache[key].kind \in {"Update", "Overwrite"}
            /\ lastOp = "store_remove" => entity_cache[key].kind = "Remove"

====
